---- MODULE Spec2Model ----
(***************************************************************************)
(* A model of RPiPWM.py: the Battery (MCP3221 ADC) voltage monitor with    *)
(* its background filter thread, the Pwm (PCA9685) controller and the      *)
(* SSD1306Base display framebuffer, all talking over one I2C bus.          *)
(*                                                                         *)
(* Numbers: Python ints are unbounded and every value of the model stays   *)
(* far below 2^31.  Python floats are modelled by exact rationals <<n, d>> *)
(* in lowest terms; where the code rounds to two decimals and the exact    *)
(* value is a tie, both neighbours are allowed, because the binary64       *)
(* value may lie on either side of the tie.                                *)
(***************************************************************************)
EXTENDS Integers, Sequences, FiniteSets, TLC

VARIABLES
    channel,          \* Pwm._channel: the registry, channel index -> PwmMode
    buffer,           \* SSD1306Base._buffer: the framebuffer, 1-indexed bytes
    bus,              \* the bus transactions issued by the last Pwm/display call
    call,             \* the last call made by the client: op, arguments, outcome
    gain,             \* Battery._gain, a rational
    filteredVoltage,  \* Battery._filteredVoltage, a rational
    exit,             \* Battery._exit
    tpc,              \* where the Battery thread is: new, check, iter, done, crashed
    samples           \* history: the samples the thread's iterations have taken

vars == <<channel, buffer, bus, call, gain, filteredVoltage, exit, tpc, samples>>

pwmVars == <<channel>>
dispVars == <<buffer>>
batVars == <<gain, filteredVoltage, exit, tpc, samples>>

(***************************************************************************)
(* Bytes and bits                                                          *)
(***************************************************************************)
RECURSIVE Pow(_, _)
Pow(b, n) == IF n = 0 THEN 1 ELSE b * Pow(b, n - 1)

\* bit r of the non-negative integer v
Bit(v, r) == (v \div Pow(2, r)) % 2

\* v & 0xFF (two's complement for a negative v, as in Python)
Byte(v) == v % 256

\* a & b and a | b on bytes, bit by bit
RECURSIVE BitAnd(_, _)
BitAnd(a, b) ==
    IF a = 0 \/ b = 0 THEN 0
    ELSE (a % 2) * (b % 2) + 2 * BitAnd(a \div 2, b \div 2)

RECURSIVE BitOr(_, _)
BitOr(a, b) ==
    IF a = 0 THEN b
    ELSE IF b = 0 THEN a
    ELSE (IF a % 2 = 1 \/ b % 2 = 1 THEN 1 ELSE 0) + 2 * BitOr(a \div 2, b \div 2)

\* ~m on a byte
Inv8(m) == 255 - m

(***************************************************************************)
(* Rationals <<n, d>>, d > 0, in lowest terms: the code's float arithmetic *)
(***************************************************************************)
Abs(x) == IF x < 0 THEN -x ELSE x

RECURSIVE Gcd(_, _)
Gcd(a, b) == IF b = 0 THEN a ELSE Gcd(b, a % b)

Norm(n, d) ==
    LET g == Gcd(Abs(n), Abs(d))
        s == IF d < 0 THEN -1 ELSE 1
    IN  <<s * (n \div g), s * (d \div g)>>

R(i) == <<i, 1>>

\* p * q, cross-reduced before multiplying so that no product outgrows the result
RMul(p, q) ==
    LET g1 == Gcd(Abs(p[1]), q[2])
        g2 == Gcd(Abs(q[1]), p[2])
        h1 == IF g1 = 0 THEN 1 ELSE g1
        h2 == IF g2 = 0 THEN 1 ELSE g2
    IN  Norm((p[1] \div h1) * (q[1] \div h2), (p[2] \div h2) * (q[2] \div h1))

\* p / q for q # 0
RDiv(p, q) == RMul(p, Norm(q[2], q[1]))

RAdd(p, q) ==
    LET g == Gcd(p[2], q[2])
    IN  Norm(p[1] * (q[2] \div g) + q[1] * (p[2] \div g), (p[2] \div g) * q[2])

RSub(p, q) == RAdd(p, <<-q[1], q[2]>>)

\* rounding to the nearest integer where the code truncates
TruncNearest(q) == (2 * q[1] + q[2]) \div (2 * q[2])

\* int(q): truncation towards zero
Trunc(q) == IF q[1] >= 0 THEN q[1] \div q[2] ELSE -((-q[1]) \div q[2])

\* round(q, 2): the results round() can give, as rationals.  The nearest
\* hundredth; at an exact tie either neighbour, since the float that stands
\* for q may lie on either side of it.
Round2Set(q) ==
    LET h == RMul(q, R(100))
        lo == h[1] \div h[2]
        r2 == 2 * (h[1] % h[2])
    IN  IF r2 < h[2] THEN {Norm(lo, 100)}
        ELSE IF r2 > h[2] THEN {Norm(lo + 1, 100)}
        ELSE {Norm(lo, 100), Norm(lo + 1, 100)}

(***************************************************************************)
(* Bus transactions                                                        *)
(***************************************************************************)
PCA9685_ADDRESS == 64
SSD1306_I2C_ADDRESS == 60
MODE1 == 0
MODE2 == 1
PRESCALE == 254
LED0_ON_L == 6
LED0_ON_H == 7
LED0_OFF_L == 8
LED0_OFF_H == 9
RESTART == 128
SLEEP == 16
ALLCALL == 1
OUTDRV == 4

\* SMBus.write_byte_data(addr, reg, val), read_byte_data(addr, reg) -> val,
\* and write_byte(addr, val) (no register)
BusWrite(addr, reg, val) == [kind |-> "write", addr |-> addr, reg |-> reg, val |-> val]
BusRead(addr, reg, val) == [kind |-> "read", addr |-> addr, reg |-> reg, val |-> val]
BusWriteRaw(addr, val) == [kind |-> "raw", addr |-> addr, reg |-> -1, val |-> val]

\* Pwm._Write8 and Pwm._ReadU8: the transaction each issues
PwmWrite8(register, value) == BusWrite(PCA9685_ADDRESS, register, Byte(value))
PwmReadU8(register, answer) == BusRead(PCA9685_ADDRESS, register, Byte(answer))

(***************************************************************************)
(* Pwm: the PCA9685 controller                                             *)
(***************************************************************************)
\* class PwmMode(IntEnum)
servo90 == 90
servo180 == 180
servo270 == 270
forwardMotor == 100
reverseMotor == 4
onOff == 5

PwmMode == {servo90, servo180, servo270, forwardMotor, reverseMotor, onOff}

\* A Python value handed to SetChannel: a bool (an int subclass, True = 1 and
\* False = 0) or an int.
PyBool(b) == [kind |-> "bool", v |-> IF b THEN 1 ELSE 0]
PyInt(i) == [kind |-> "int", v |-> i]
IsTrue(value) == value.kind = "bool" /\ value.v = 1
IsFalse(value) == value.kind = "bool" /\ value.v = 0

\* what a call without a return statement, or one that raises, hands back
None == <<>>

Ok(result) == [outcome |-> "ok", error |-> "", result |-> result]
Raise(error) == [outcome |-> "ValueError", error |-> error, result |-> None]

\* the prescale without the + 0.5 that rounds it
PrescaleOfFloor(freqHz) ==
    LET prescaleval == RSub(RDiv(RDiv(R(25000000), R(4096)), R(freqHz)), R(1))
    IN  prescaleval[1] \div prescaleval[2]

\* Pwm._SetPwmFreq: the prescale it computes, floor(25e6/4096/freqHz - 1 + 0.5)
PrescaleOf(freqHz) ==
    LET prescaleval == RSub(RDiv(RDiv(R(25000000), R(4096)), R(freqHz)), R(1))
        shifted == RAdd(prescaleval, <<1, 2>>)
    IN  shifted[1] \div shifted[2]

\* _SetPwmFreq writing the prescale before it puts the chip to sleep
SetPwmFreqBusAwake(freqHz, oldmode) ==
    LET prescale == PrescaleOf(freqHz)
        newmode == BitOr(BitAnd(oldmode, 127), 16)
    IN  << PwmReadU8(MODE1, oldmode),
           PwmWrite8(PRESCALE, prescale),
           PwmWrite8(MODE1, newmode),
           PwmWrite8(MODE1, oldmode),
           PwmWrite8(MODE1, BitOr(oldmode, 8)) >>

\* Pwm._SetPwmFreq: its bus transactions, oldmode being what MODE1 reads as
SetPwmFreqBus(freqHz, oldmode) ==
    LET prescale == PrescaleOf(freqHz)
        newmode == BitOr(BitAnd(oldmode, 127), 16)
    IN  << PwmReadU8(MODE1, oldmode),
           PwmWrite8(MODE1, newmode),
           PwmWrite8(PRESCALE, prescale),
           PwmWrite8(MODE1, oldmode),
           PwmWrite8(MODE1, BitOr(oldmode, 8)) >>

\* Pwm.__init__: its bus transactions, read1 and read2 being what MODE1 reads as
PwmInitBus(read1, read2) ==
    << PwmWrite8(MODE2, OUTDRV),
       PwmWrite8(MODE1, ALLCALL),
       PwmReadU8(MODE1, read1),
       PwmWrite8(MODE1, BitAnd(Byte(read1), Inv8(SLEEP))) >>
    \o SetPwmFreqBus(50, Byte(read2))

\* Pwm._SetPwm
SetPwmBus(ch, value) ==
    << PwmWrite8(LED0_ON_L + 4 * ch, 0),
       PwmWrite8(LED0_ON_H + 4 * ch, 0),
       PwmWrite8(LED0_OFF_L + 4 * ch, value % 256),
       PwmWrite8(LED0_OFF_H + 4 * ch, value \div 256) >>

\* Pwm.SetChannel, lines 176-199: the value handed to _SetPwm, or the error
SetChannelValue(mode, value) ==
    IF mode = reverseMotor THEN
        LET v1 == IF value.v < -100 THEN -100 ELSE value.v
            v2 == IF v1 > 100 THEN 100 ELSE v1
            v3 == v2 + 100
            v4 == RMul(R(v3), RDiv(R(205), R(200)))
            v5 == RAdd(v4, R(205))
        IN  Ok(Trunc(v5))
    ELSE IF mode = onOff THEN
        IF value.v < 0 THEN Raise("Value must be True or False for On/Off mode")
        ELSE IF IsTrue(value) THEN Ok(4095)
        ELSE Ok(0)
    ELSE
        LET v1 == IF value.v < 0 THEN 0 ELSE value.v
            v2 == IF v1 > mode THEN mode ELSE v1
            v3 == RMul(R(v2), RDiv(R(205), R(mode)))
            v4 == RAdd(v3, R(205))
        IN  Ok(Trunc(v4))

\* the range test accepting one channel too many
ChannelInRangeOffByOne(ch) == 0 <= ch /\ ch <= 16

\* Pwm.InitChannel, line 165: the range test
ChannelInRange(ch) == 0 <= ch /\ ch <= 15

\* InitChannel storing the mode before it tests the range
InitChannelStoresFirst(ch, mode) ==
    /\ channel' = [c \in DOMAIN channel \cup {ch} |->
                      IF c = ch THEN mode ELSE channel[c]]
    /\ call' = [op |-> "InitChannel", channel |-> ch, mode |-> mode] @@
                  (IF ChannelInRange(ch) THEN Ok(None)
                   ELSE Raise("Channel number must be from 0 to 15 (inclusive)."))
    /\ bus' = <<>>
    /\ UNCHANGED <<dispVars, batVars>>

\* Pwm.InitChannel(channel, value)
InitChannel(ch, mode) ==
    /\ IF ChannelInRange(ch)
       THEN /\ channel' = [c \in DOMAIN channel \cup {ch} |->
                               IF c = ch THEN mode ELSE channel[c]]
            /\ call' = [op |-> "InitChannel", channel |-> ch, mode |-> mode] @@ Ok(None)
       ELSE /\ channel' = channel
            /\ call' = [op |-> "InitChannel", channel |-> ch, mode |-> mode]
                            @@ Raise("Channel number must be from 0 to 15 (inclusive).")
    /\ bus' = <<>>
    /\ UNCHANGED <<dispVars, batVars>>

\* Pwm.SetChannel(channel, value)
SetChannel(ch, value) ==
    LET me == [op |-> "SetChannel", channel |-> ch, value |-> value]
    IN  /\ IF ch \notin DOMAIN channel
           THEN /\ call' = me @@ Raise("Channel haven't been inited!")
                /\ bus' = <<>>
           ELSE LET r == SetChannelValue(channel[ch], value)
                IN  /\ call' = me @@ r
                    /\ bus' = IF r.outcome = "ok" THEN SetPwmBus(ch, r.result) ELSE <<>>
        /\ UNCHANGED <<pwmVars, dispVars, batVars>>

\* Pwm._SetPwmFreq(freqHz); oldmode is the byte the chip answers for MODE1
SetPwmFreq(freqHz, oldmode) ==
    /\ call' = [op |-> "_SetPwmFreq", freqHz |-> freqHz, oldmode |-> oldmode] @@ Ok(None)
    /\ bus' = SetPwmFreqBus(freqHz, oldmode)
    /\ UNCHANGED <<pwmVars, dispVars, batVars>>

\* Pwm.Reset()
Reset ==
    /\ call' = [op |-> "Reset"] @@ Ok(None)
    /\ bus' = << BusWriteRaw(PCA9685_ADDRESS, 6) >>
    /\ UNCHANGED <<pwmVars, dispVars, batVars>>

(***************************************************************************)
(* SSD1306Base: the display framebuffer                                    *)
(***************************************************************************)
\* the panel the driver was constructed for: width x height pixels
width == 9
PanelPages == 2
height == 8 * PanelPages
pages == height \div 8

SSD1306_SETCONTRAST == 129
SSD1306_COLUMNADDR == 33
SSD1306_PAGEADDR == 34

\* SSD1306Base._Write8 via Command(c) (control 0x00), and _WriteList (control 0x40)
Command(c) == BusWrite(SSD1306_I2C_ADDRESS, 0, Byte(c))
WriteList(register, data) ==
    [k \in 1..Len(data) |-> BusWrite(SSD1306_I2C_ADDRESS, register, data[k])]

\* A PIL image: its mode, its size and, by kind, its pixels (0 or 255).
\* pix[(x, y)] of image.load()
PixelAt(img, x, y) ==
    CASE img.kind = "blank" -> 0
      [] img.kind = "full" -> 255
      [] img.kind = "checker" -> IF (x + y) % 2 = 0 THEN 255 ELSE 0
      [] img.kind = "stripes" -> IF (y + x \div 3) % 3 = 0 THEN 255 ELSE 0
      [] img.kind = "dot" -> IF x = img.x /\ y = img.y THEN 255 ELSE 0

Picture(mode, w, h, kind, x, y) ==
    [mode |-> mode, size |-> <<w, h>>, kind |-> kind, x |-> x, y |-> y]

\* the images the client hands to Image(): the one-pixel images of three
\* columns of the panel, four patterns of that size, and images of a wrong mode or size
Dots ==
    {Picture("1", width, height, "dot", x, y) : x \in {0, 1, width - 1}, y \in 0..height-1}
Patterns == {Picture("1", width, height, k, 0, 0) : k \in {"blank", "full", "checker", "stripes"}}
Misfits ==
    { Picture("L", width, height, "checker", 0, 0),
      Picture("1", width + 1, height, "checker", 0, 0),
      Picture("1", width, height - 8, "full", 0, 0),
      Picture("1", height, width, "dot", 1, 1) }
Images == Dots \cup Patterns \cup Misfits
FewImages ==
    Misfits \cup { Picture("1", width, height, "checker", 0, 0),
                   Picture("1", width, height, "dot", width - 1, height - 1) }

\* the byte packed from the top row down, so that the top row ends up in the
\* most significant bit
RECURSIVE PackBitsTopFirst(_, _, _, _, _)
PackBitsTopFirst(img, x, page, bit, bits) ==
    IF bit > 7 THEN bits
    ELSE LET shifted == bits * 2
             pixel == IF PixelAt(img, x, page * 8 + bit) = 0 THEN 0 ELSE 1
         IN  PackBitsTopFirst(img, x, page, bit + 1, BitOr(shifted, pixel))

\* SSD1306Base.Image, lines 297-300: the byte of column x of a page, built
\* from bit on: bits = bits << 1; bits |= 0 if pix[(x, page*8+7-bit)] == 0 else 1
RECURSIVE PackBits(_, _, _, _, _)
PackBits(img, x, page, bit, bits) ==
    IF bit > 7 THEN bits
    ELSE LET shifted == bits * 2
             pixel == IF PixelAt(img, x, page * 8 + 7 - bit) = 0 THEN 0 ELSE 1
         IN  PackBits(img, x, page, bit + 1, BitOr(shifted, pixel))

\* SSD1306Base.Image, lines 293-303: the buffer after the loops; the index-th
\* store (from 0) is that of page index \div width, column index % width
PackImage(img, old) ==
    [i \in 1..Len(old) |->
        IF i - 1 < pages * width
        THEN PackBits(img, (i - 1) % width, (i - 1) \div width, 0, 0)
        ELSE old[i]]

\* SSD1306Base.Image(image)
Image(img) ==
    LET me == [op |-> "Image", image |-> img]
    IN  /\ IF img.mode # "1"
           THEN /\ call' = me @@ Raise("Image must be in mode 1.")
                /\ buffer' = buffer
           ELSE IF img.size[1] # width \/ img.size[2] # height
           THEN /\ call' = me @@ Raise("Image must be same dimensions as display")
                /\ buffer' = buffer
           ELSE /\ call' = me @@ Ok(None)
                /\ buffer' = PackImage(img, buffer)
        /\ bus' = <<>>
        /\ UNCHANGED <<pwmVars, batVars>>

\* SSD1306Base.Clear()
Clear ==
    /\ buffer' = [i \in 1..(width * pages) |-> 0]
    /\ call' = [op |-> "Clear"] @@ Ok(None)
    /\ bus' = <<>>
    /\ UNCHANGED <<pwmVars, batVars>>

\* the data transactions with slices one byte short of the step
RECURSIVE DisplayDataShort(_, _)
DisplayDataShort(buf, i) ==
    IF i >= Len(buf) THEN <<>>
    ELSE LET last == IF i + 15 < Len(buf) THEN i + 15 ELSE Len(buf)
         IN  WriteList(64, SubSeq(buf, i + 1, last)) \o DisplayDataShort(buf, i + 16)

\* SSD1306Base.Display, lines 280-282: the data transactions from index i on,
\* 16 bytes per _WriteList
RECURSIVE DisplayData(_, _)
DisplayData(buf, i) ==
    IF i >= Len(buf) THEN <<>>
    ELSE LET last == IF i + 16 < Len(buf) THEN i + 16 ELSE Len(buf)
         IN  WriteList(64, SubSeq(buf, i + 1, last)) \o DisplayData(buf, i + 16)

\* SSD1306Base.Display, lines 273-278: the address window
DisplayWindow ==
    << Command(SSD1306_COLUMNADDR), Command(0), Command(width - 1),
       Command(SSD1306_PAGEADDR), Command(0), Command(pages - 1) >>

\* SSD1306Base.Display()
Display ==
    /\ bus' = DisplayWindow \o DisplayData(buffer, 0)
    /\ call' = [op |-> "Display"] @@ Ok(None)
    /\ UNCHANGED <<buffer, pwmVars, batVars>>

\* SSD1306Base.SetContrast(contrast)
SetContrast(contrast) ==
    LET me == [op |-> "SetContrast", contrast |-> contrast]
    IN  /\ IF contrast < 0 \/ contrast > 255
           THEN /\ call' = me @@ Raise("Contrast must be value from 0 to 255 (inclusive).")
                /\ bus' = <<>>
           ELSE /\ call' = me @@ Ok(None)
                /\ bus' = << Command(SSD1306_SETCONTRAST), Command(contrast) >>
        /\ UNCHANGED <<buffer, pwmVars, batVars>>

(***************************************************************************)
(* Battery: the MCP3221 voltage monitor and its filter thread              *)
(***************************************************************************)
\* the most iterations of the filter thread a behaviour of the model holds
MaxIters == 3

\* Battery.__init__: vRef = 3.3, gain = 7.66, _K = 0.1
vRef == <<33, 10>>
defaultGain == <<766, 100>>
K == <<1, 10>>

\* the two bytes the ADC answers to read_i2c_block_data(0x4D, 0x00, 2); the
\* MCP3221 gives 12 bits, so the first byte is at most 15
Readings == { <<8, 1>>, <<15, 255>> }

\* Battery._ReadRaw and Battery._ReadConverted for an answer of the bus
ReadRaw(reading) == reading[1] * 256 + reading[2]
ReadConverted(reading) == RMul(RDiv(R(ReadRaw(reading)), R(4095)), vRef)

\* Battery.GetVoltageInstant for an answer of the bus, under gain g: the
\* values round(battery, 2) can give
VoltageInstant(reading, g) == Round2Set(RMul(ReadConverted(reading), g))

\* the filter with its two weights exchanged
FilterSwapped(filtered, sample) == RAdd(RMul(filtered, K), RMul(sample, RSub(R(1), K)))

\* Battery.run, line 35: the new filtered value for a sample
Filter(filtered, sample) == RAdd(RMul(filtered, RSub(R(1), K)), RMul(sample, K))

OSError == [outcome |-> "OSError", error |-> "bus read failed", result |-> None]
ZeroDivisionError ==
    [outcome |-> "ZeroDivisionError", error |-> "float division by zero", result |-> None]

\* Thread.start()
Start ==
    /\ tpc = "new"
    /\ tpc' = "check"
    /\ UNCHANGED <<gain, filteredVoltage, exit, samples, call, bus, pwmVars, dispVars>>

\* a loop test that does not look at the stop flag
RunCheckDeaf ==
    /\ tpc = "check"
    /\ Len(samples) < MaxIters
    /\ tpc' = "iter"
    /\ UNCHANGED <<gain, filteredVoltage, exit, samples, call, bus, pwmVars, dispVars>>

\* Battery.run, line 34: the loop test
RunCheck ==
    /\ tpc = "check"
    /\ \/ exit /\ tpc' = "done"
       \/ ~exit /\ Len(samples) < MaxIters /\ tpc' = "iter"
    /\ UNCHANGED <<gain, filteredVoltage, exit, samples, call, bus, pwmVars, dispVars>>

\* Battery.run, lines 35-36: one sample, one update of the filtered voltage,
\* and the sleep
RunIter ==
    /\ tpc = "iter"
    /\ \E reading \in Readings : \E sample \in VoltageInstant(reading, gain) :
          /\ filteredVoltage' = Filter(filteredVoltage, sample)
          /\ samples' = Append(samples, sample)
    /\ tpc' = "check"
    /\ UNCHANGED <<gain, exit, call, bus, pwmVars, dispVars>>

\* Battery.run, line 35, when the bus read raises: the exception ends the thread
RunCrash ==
    /\ tpc = "iter"
    /\ tpc' = "crashed"
    /\ UNCHANGED <<gain, filteredVoltage, exit, samples, call, bus, pwmVars, dispVars>>

\* Battery.Stop().  The record of the call notes how many samples the thread
\* had taken when the flag was set.
Stop ==
    /\ exit' = TRUE
    /\ call' = [op |-> "Stop", taken |-> Len(samples)] @@ Ok(None)
    /\ UNCHANGED <<gain, filteredVoltage, tpc, samples, bus, pwmVars, dispVars>>

\* Battery.GetVoltageInstant()
GetVoltageInstant ==
    /\ \/ \E reading \in Readings : \E battery \in VoltageInstant(reading, gain) :
             call' = [op |-> "GetVoltageInstant"] @@ Ok(battery)
       \/ call' = [op |-> "GetVoltageInstant"] @@ OSError
    /\ UNCHANGED <<batVars, bus, pwmVars, dispVars>>

\* Battery.GetVoltageFiltered()
GetVoltageFiltered ==
    /\ \E r \in Round2Set(filteredVoltage) :
          call' = [op |-> "GetVoltageFiltered"] @@ Ok(r)
    /\ UNCHANGED <<batVars, bus, pwmVars, dispVars>>

\* What the bus answers during one Calibrate: `first` for the first n of the
\* reads and `rest` for the others; the read numbered failAt (from 0) raises,
\* none does when failAt = -1.
Answers(first, n, rest, failAt) ==
    [first |-> first, n |-> n, rest |-> rest, failAt |-> failAt]
AnswerAt(answers, i) == IF i < answers.n THEN answers.first ELSE answers.rest

CalibrateAnswers ==
    { Answers(<<15, 255>>, 50, <<8, 1>>, -1),
      Answers(<<0, 0>>, 100, <<0, 0>>, -1),
      Answers(<<8, 1>>, 100, <<8, 1>>, 99) }

\* Battery.Calibrate, lines 57-60: what the reads numbered lo .. hi-1 add to
\* value.  The loop adds them one by one; exact addition is associative, and
\* the sum is taken by halves to keep the evaluation shallow.
RECURSIVE CalibrateSum(_, _, _)
CalibrateSum(answers, lo, hi) ==
    IF hi - lo = 1 THEN ReadConverted(AnswerAt(answers, lo))
    ELSE LET mid == (lo + hi) \div 2
         IN  RAdd(CalibrateSum(answers, lo, mid), CalibrateSum(answers, mid, hi))

\* the value without the division by the number of reads
CalibrateValueSum(answers) == RAdd(R(0), CalibrateSum(answers, 0, 100))

\* Battery.Calibrate, lines 57-61: value after the loop and the division
CalibrateValue(answers) == RDiv(RAdd(R(0), CalibrateSum(answers, 0, 100)), R(100))

\* the runs of Calibrate's loop: what the bus answered and the value it left
CalibrateRuns == {[answers |-> a, value |-> CalibrateValue(a)] : a \in CalibrateAnswers}

\* Battery.Calibrate(exactVoltage)
Calibrate(exactVoltage, run) ==
    LET me == [op |-> "Calibrate", exactVoltage |-> exactVoltage, run |-> run]
    IN  /\ IF run.answers.failAt >= 0
           THEN /\ call' = me @@ OSError
                /\ gain' = gain
           ELSE IF run.value = R(0)
           THEN /\ call' = me @@ ZeroDivisionError
                /\ gain' = gain
           ELSE /\ call' = me @@ Ok(None)
                /\ gain' = RDiv(exactVoltage, run.value)
        /\ UNCHANGED <<filteredVoltage, exit, tpc, samples, bus, pwmVars, dispVars>>

(***************************************************************************)
(* The specifications                                                      *)
(***************************************************************************)
\* the bytes the PCA9685 answers when MODE1 is read
Mode1Reads == {1, 33, 145}

\* the arguments the client calls with
ChannelArgs == {-1, 0, 15, 16}
ValueArgs ==
    {PyBool(TRUE), PyBool(FALSE)} \cup
    {PyInt(i) : i \in {-150, -100, -1, 0, 1, 2, 45, 90, 100, 180, 200, 270, 300}}
FreqArgs == {1, 23, 24, 50, 60, 1000, 12207, 12208}
ContrastArgs == {-1, 0, 128, 255, 256}
VoltageArgs == { R(12) }

\* The state after Pwm(), an SSD1306Base subclass and Battery() were constructed
Init ==
    /\ channel = <<>>
    /\ buffer = [i \in 1..(width * pages) |-> 0]
    /\ \E read1 \in Mode1Reads, read2 \in Mode1Reads :
          /\ bus = PwmInitBus(read1, read2)
          /\ call = [op |-> "__init__", oldmode |-> Byte(read2)] @@ Ok(None)
    /\ gain = defaultGain
    /\ filteredVoltage = R(0)
    /\ exit = FALSE
    /\ tpc = "new"
    /\ samples = <<>>

NextPwm ==
    \/ \E ch \in ChannelArgs, mode \in PwmMode : InitChannel(ch, mode)
    \/ \E ch \in ChannelArgs, value \in ValueArgs : SetChannel(ch, value)
    \/ \E freqHz \in FreqArgs, oldmode \in Mode1Reads : SetPwmFreq(freqHz, oldmode)
    \/ Reset

NextDisplay ==
    \/ \E img \in Images : Image(img)
    \/ Clear
    \/ Display
    \/ \E contrast \in ContrastArgs : SetContrast(contrast)

NextBattery ==
    \/ Start
    \/ RunCheck
    \/ RunIter
    \/ RunCrash
    \/ Stop
    \/ GetVoltageInstant
    \/ GetVoltageFiltered
    \/ \E exactVoltage \in VoltageArgs, run \in CalibrateRuns :
          Calibrate(exactVoltage, run)

\* the calls of both drivers that validate their arguments, with few arguments
NextValidation ==
    \/ \E ch \in ChannelArgs, mode \in {servo180, onOff} : InitChannel(ch, mode)
    \/ \E ch \in {0, 16}, value \in {PyInt(-1), PyInt(90), PyBool(TRUE)} :
          SetChannel(ch, value)
    \/ \E img \in FewImages : Image(img)
    \/ Clear
    \/ \E contrast \in ContrastArgs : SetContrast(contrast)

SpecPwm == Init /\ [][NextPwm]_vars
SpecValidation == Init /\ [][NextValidation]_vars
SpecDisplay == Init /\ [][NextDisplay]_vars
SpecBattery == Init /\ [][NextBattery]_vars

\* The thread is scheduled: a loop test that can be made is made, and an
\* iteration that was begun ends, by its update or by the exception of its
\* bus read.  The client's calls, Thread.start() among them, are not forced.
SpecBatteryFair ==
    /\ Init
    /\ [][NextBattery]_vars
    /\ WF_batVars(RunCheck)
    /\ WF_batVars(RunCrash \/ RunIter)

(***************************************************************************)
(* Properties of the Pwm controller                                        *)
(***************************************************************************)
\* a write to one of the per-channel registers (0x06 up to the ALL_LED block
\* at 0xFA), and the channel whose on/off registers it addresses
ALL_LED_ON_L == 250
IsChannelWrite(t) ==
    /\ t.kind = "write"
    /\ t.addr = PCA9685_ADDRESS
    /\ t.reg >= LED0_ON_L
    /\ t.reg < ALL_LED_ON_L
ChannelOf(t) == (t.reg - LED0_ON_L) \div 4

\* C1: InitChannel outside 0..15 fails and registers nothing, SetChannel on
\* an unregistered channel fails, and every write to a channel's on/off
\* registers targets a channel in 0..15 that is in the registry.
DrivenOnlyWhenRegistered ==
    /\ DOMAIN channel \subseteq 0..15
    /\ (call.op = "InitChannel" /\ call.channel \notin 0..15) =>
          /\ call.outcome = "ValueError"
          /\ call.channel \notin DOMAIN channel
          /\ bus = <<>>
    /\ (call.op = "SetChannel" /\ call.channel \notin DOMAIN channel) =>
          /\ call.outcome = "ValueError"
          /\ bus = <<>>
    /\ \A i \in 1..Len(bus) :
          IsChannelWrite(bus[i]) =>
              /\ ChannelOf(bus[i]) \in 0..15
              /\ ChannelOf(bus[i]) \in DOMAIN channel
              /\ call.op = "SetChannel"
              /\ ChannelOf(bus[i]) = call.channel

\* C1's case: a registered channel was driven while channel 0 never was registered
DrivenWitness ==
    /\ call.op = "SetChannel"
    /\ call.outcome = "ok"
    /\ call.channel = 15
    /\ 0 \notin DOMAIN channel
    /\ \E i \in 1..Len(bus) : IsChannelWrite(bus[i])

\* the on-tick and off-tick the last SetChannel wrote, from the four bytes
OnTick == bus[1].val + 256 * bus[2].val
OffTick == bus[3].val + 256 * bus[4].val
WroteChannel(ch) ==
    /\ Len(bus) = 4
    /\ \A i \in 1..4 : bus[i].kind = "write" /\ bus[i].addr = PCA9685_ADDRESS
    /\ bus[1].reg = 6 + 4 * ch
    /\ bus[2].reg = 7 + 4 * ch
    /\ bus[3].reg = 8 + 4 * ch
    /\ bus[4].reg = 9 + 4 * ch

Clamped(v, lo, hi) == IF v < lo THEN lo ELSE IF v > hi THEN hi ELSE v

\* the tick the specification gives for a mode and a value
MappedTick(mode, v) ==
    IF mode = reverseMotor
    THEN 205 + ((Clamped(v, -100, 100) + 100) * 205) \div 200
    ELSE 205 + (Clamped(v, 0, mode) * 205) \div mode

LastDrove(mode) ==
    /\ call.op = "SetChannel"
    /\ call.channel \in DOMAIN channel
    /\ channel[call.channel] = mode

\* C2: on a Servo(maxAngle), ForwardMotor or ReverseMotor channel SetChannel
\* writes on-tick 0 and the truncated off-tick 205 + value*205/maxAngle
\* (value clamped to [0, maxAngle]; ForwardMotor as Servo(100); ReverseMotor
\* 205 + (value+100)*205/200, value clamped to [-100, 100]), within [205, 410].
MotionTicks ==
    \A mode \in PwmMode \ {onOff} :
        LastDrove(mode) =>
            /\ call.outcome = "ok"
            /\ WroteChannel(call.channel)
            /\ OnTick = 0
            /\ OffTick = MappedTick(mode, call.value.v)
            /\ OffTick >= 205 /\ OffTick <= 410
            /\ (mode = reverseMotor /\ call.value.v = 0) => OffTick = 307
            /\ (mode = reverseMotor /\ call.value.v = 100) => OffTick = 410
            /\ (mode = reverseMotor /\ call.value.v = -150) => OffTick = 205
            /\ (mode = servo180 /\ call.value.v = 90) => OffTick = 307
            /\ (mode = servo180 /\ call.value.v = 200) => OffTick = 410
            /\ (mode = forwardMotor) => OffTick = MappedTick(100, call.value.v)

\* C2's case: a ReverseMotor channel was driven with -150 and got tick 205
MotionWitness ==
    /\ LastDrove(reverseMotor)
    /\ call.value = PyInt(-150)
    /\ Len(bus) = 4
    /\ OffTick = 205

\* C3: on an OnOff channel SetChannel writes off-tick 4095 for True and 0
\* for False, and fails without writing a tick for any other value.
OnOffBooleansOnly ==
    LastDrove(onOff) =>
        /\ IsTrue(call.value) =>
              call.outcome = "ok" /\ WroteChannel(call.channel) /\ OffTick = 4095
        /\ IsFalse(call.value) =>
              call.outcome = "ok" /\ WroteChannel(call.channel) /\ OffTick = 0
        /\ (~IsTrue(call.value) /\ ~IsFalse(call.value)) =>
              call.outcome # "ok" /\ bus = <<>>

\* C4: a call that fails has issued no bus transaction and has left the
\* channel registry and the framebuffer as they were.
FailsBeforeAnyEffect ==
    [][ call'.outcome # "ok" =>
            /\ bus' = <<>>
            /\ channel' = channel
            /\ buffer' = buffer ]_vars

\* C4's case: a call failed once a channel was registered and an image loaded
FailureWitness ==
    /\ call.outcome = "ValueError"
    /\ call.op = "Image"
    /\ DOMAIN channel # {}
    /\ \E i \in 1..Len(buffer) : buffer[i] # 0

\* the transactions of the last _SetPwmFreq: all five of a SetFrequency call,
\* the last five of the constructor's
FreqBus == SubSeq(bus, Len(bus) - 4, Len(bus))
IsMode1Write(t) == t.kind = "write" /\ t.addr = PCA9685_ADDRESS /\ t.reg = MODE1
IsPrescaleWrite(t) == t.kind = "write" /\ t.addr = PCA9685_ADDRESS /\ t.reg = PRESCALE
RanSetFrequency == call.op \in {"_SetPwmFreq", "__init__"}

\* C5: SetFrequency writes MODE1 with the sleep bit set and the restart bit
\* clear, then PRESCALE, then MODE1 with the mode read before, then MODE1
\* once more; PRESCALE is never written while the last MODE1 value written
\* has the sleep bit clear.
PrescaleOnlyAsleep ==
    /\ RanSetFrequency =>
          /\ Len(bus) >= 5
          /\ FreqBus[1] = BusRead(PCA9685_ADDRESS, MODE1, call.oldmode)
          /\ IsMode1Write(FreqBus[2])
          /\ BitAnd(FreqBus[2].val, SLEEP) = SLEEP
          /\ BitAnd(FreqBus[2].val, RESTART) = 0
          /\ IsPrescaleWrite(FreqBus[3])
          /\ FreqBus[4] = BusWrite(PCA9685_ADDRESS, MODE1, call.oldmode)
          /\ IsMode1Write(FreqBus[5])
    /\ \A i \in 1..Len(bus) :
          IsPrescaleWrite(bus[i]) =>
              \E j \in 1..(i - 1) :
                  /\ IsMode1Write(bus[j])
                  /\ BitAnd(bus[j].val, SLEEP) = SLEEP
                  /\ \A k \in (j + 1)..(i - 1) : ~IsMode1Write(bus[k])

\* C5's case: SetFrequency ran on a chip that was awake
FrequencyWitness ==
    /\ call.op = "_SetPwmFreq"
    /\ BitAnd(call.oldmode, SLEEP) = 0
    /\ \E i \in 1..Len(bus) : IsPrescaleWrite(bus[i])

\* floor(25_000_000/(4096*hz) - 1 + 0.5), in integers
PrescaleFormula(hz) == (50000000 - 4096 * hz) \div (8192 * hz)
FreqAsked == IF call.op = "__init__" THEN 50 ELSE call.freqHz

\* C6 as stated: the byte written to PRESCALE equals the formula, for every
\* positive frequency.
PrescaleIsFormula ==
    RanSetFrequency => FreqBus[3].val = PrescaleFormula(FreqAsked)

\* C6: the byte written to PRESCALE is the formula's value modulo 256, so it
\* equals the formula whenever that lies in 0..255; SetFrequency(50) writes 121.
PrescaleIsFormulaByte ==
    RanSetFrequency =>
        /\ IsPrescaleWrite(FreqBus[3])
        /\ FreqBus[3].val = PrescaleFormula(FreqAsked) % 256
        /\ PrescaleFormula(FreqAsked) \in 0..255 =>
              FreqBus[3].val = PrescaleFormula(FreqAsked)
        /\ FreqAsked = 50 => FreqBus[3].val = 121

\* C6's case: SetFrequency(1), whose prescale 6103 does not fit a byte
PrescaleWitness ==
    /\ call.op = "_SetPwmFreq"
    /\ call.freqHz = 1
    /\ FreqBus[3].val = 215

(***************************************************************************)
(* Properties of the display framebuffer                                   *)
(***************************************************************************)
LoadedImage == call.op = "Image" /\ call.outcome = "ok"
OneIfSet(pixel) == IF pixel = 0 THEN 0 ELSE 1

\* reading the packed buffer back: the pixel of column x, row y
Unpacked(buf, x, y) == Bit(buf[(y \div 8) * width + x + 1], y % 8)

\* C7: after Image, bit r of the byte at index p*W + x is the pixel of
\* column x, row p*8 + r, and unpacking the buffer gives the bitmap back.
PackedBottomRowHigh ==
    LoadedImage =>
        /\ Len(buffer) = width * (height \div 8)
        /\ \A p \in 0..(height \div 8 - 1), x \in 0..(width - 1), r \in 0..7 :
              /\ buffer[p * width + x + 1] \in 0..255
              /\ Bit(buffer[p * width + x + 1], r)
                    = OneIfSet(PixelAt(call.image, x, p * 8 + r))
        /\ \A x \in 0..(width - 1), y \in 0..(height - 1) :
              Unpacked(buffer, x, y) = OneIfSet(PixelAt(call.image, x, y))

\* C7's case: the image with only the bottom right pixel set was loaded, and
\* the last byte has only its most significant bit set
PackedWitness ==
    /\ LoadedImage
    /\ call.image.kind = "dot"
    /\ call.image.x = width - 1
    /\ call.image.y = height - 1
    /\ buffer[width * pages] = 128

\* what Flush has to transmit for a buffer: the two address windows as
\* commands, then every byte in index order on the data channel
Streamed(buf) ==
    << BusWrite(SSD1306_I2C_ADDRESS, 0, SSD1306_COLUMNADDR),
       BusWrite(SSD1306_I2C_ADDRESS, 0, 0),
       BusWrite(SSD1306_I2C_ADDRESS, 0, width - 1),
       BusWrite(SSD1306_I2C_ADDRESS, 0, SSD1306_PAGEADDR),
       BusWrite(SSD1306_I2C_ADDRESS, 0, 0),
       BusWrite(SSD1306_I2C_ADDRESS, 0, height \div 8 - 1) >>
    \o [k \in 1..(width * (height \div 8)) |-> BusWrite(SSD1306_I2C_ADDRESS, 64, buf[k])]

\* C8: after any Clear and Image calls, Display sends the column window
\* [0, W-1] and the page window [0, H/8-1] and then exactly the W*(H/8)
\* bytes of the buffer in index order, leaving the buffer unchanged; after
\* Clear those are W*(H/8) zero bytes.
FlushStreamsBuffer ==
    [][ /\ Len(buffer') = width * (height \div 8)
        /\ call'.op = "Display" =>
              /\ bus' = Streamed(buffer)
              /\ buffer' = buffer
        /\ (call.op = "Clear" /\ call'.op = "Display") =>
              /\ Len(bus') = 6 + width * (height \div 8)
              /\ \A k \in 7..Len(bus') : bus'[k].reg = 64 /\ bus'[k].val = 0 ]_vars

\* C8's case: Display transmitted a buffer whose last byte, in the second
\* slice of 16, is not zero
FlushWitness ==
    /\ call.op = "Display"
    /\ Len(buffer) > 16
    /\ buffer[Len(buffer)] # 0
    /\ bus[Len(bus)].val = buffer[Len(buffer)]

(***************************************************************************)
(* Properties of the voltage monitor                                       *)
(***************************************************************************)
OneMinusK == <<9, 10>>

\* the exponential moving average of a sequence of samples, from 0
RECURSIVE Ema(_)
Ema(s) ==
    IF Len(s) = 0 THEN R(0)
    ELSE RAdd(RMul(Ema(SubSeq(s, 1, Len(s) - 1)), OneMinusK), RMul(s[Len(s)], K))

RECURSIVE RPow(_, _)
RPow(q, n) == IF n = 0 THEN R(1) ELSE RMul(q, RPow(q, n - 1))

RAbs(q) == <<Abs(q[1]), q[2]>>

\* the filtered voltage is the moving average of the samples taken so far,
\* and for a constant sample v it is v*(1-K)^n away from v after n iterations
IsMovingAverage ==
    /\ filteredVoltage = Ema(samples)
    /\ (Len(samples) > 0 /\ \A i \in 1..Len(samples) : samples[i] = samples[1]) =>
          RAbs(RSub(filteredVoltage, samples[1]))
              = RMul(samples[1], RPow(OneMinusK, Len(samples)))

\* a step of the thread that completes an iteration
IterationStep == tpc = "iter" /\ tpc' = "check"

\* only a completed iteration writes the filtered voltage, and it writes
\* filtered*(1-K) + sample*K for an instantaneous sample
OnlyIterationsFilter ==
    /\ (filteredVoltage' # filteredVoltage \/ samples' # samples) => IterationStep
    /\ IterationStep =>
          /\ Len(samples') = Len(samples) + 1
          /\ SubSeq(samples', 1, Len(samples)) = samples
          /\ \E reading \in Readings :
                samples'[Len(samples')] \in VoltageInstant(reading, gain)
          /\ filteredVoltage' =
                RAdd(RMul(filteredVoltage, OneMinusK), RMul(samples'[Len(samples')], K))

\* a step that is a call of GetVoltageFiltered
ReadFilteredStep == call'.op = "GetVoltageFiltered" /\ tpc' = tpc

\* C9 as stated: the filtered voltage starts at 0 and is the moving average
\* of the samples, and ReadFiltered returns the value of a completed
\* iteration (or the initial 0).
ReadsAnIterationValue ==
    /\ IsMovingAverage
    /\ call.op = "GetVoltageFiltered" =>
          \E n \in 0..Len(samples) : call.result = Ema(SubSeq(samples, 1, n))

\* C9: the filtered voltage starts at 0, only a completed iteration writes
\* it, with filtered*(1-K) + sample*K, so it is the moving average of the
\* samples (v*(1-K)^n away from a constant sample v), and ReadFiltered
\* returns the value of the latest completed iteration rounded to two
\* decimals.
FilteredIsMovingAverage ==
    /\ filteredVoltage = R(0)
    /\ []IsMovingAverage
    /\ [][ /\ OnlyIterationsFilter
           /\ ReadFilteredStep =>
                 /\ call'.outcome = "ok"
                 /\ call'.result \in Round2Set(filteredVoltage) ]_vars

\* C9's case: after three iterations with one and the same sample a
\* ReadFiltered returned the rounded value
FilteredWitness ==
    /\ Len(samples) = 3
    /\ \A i \in 1..3 : samples[i] = samples[1]
    /\ call.op = "GetVoltageFiltered"
    /\ call.result \in Round2Set(filteredVoltage)
    /\ call.result # filteredVoltage

\* the mean of the pre-gain converted samples of one Calibrate, from the sum
\* of the raw readings: (sum / 100) / 4095 * 3.3
MeanConverted(answers) ==
    LET sumRaw == answers.n * ReadRaw(answers.first)
                    + (100 - answers.n) * ReadRaw(answers.rest)
    IN  RMul(RMul(Norm(sumRaw, 100), <<1, 4095>>), <<33, 10>>)

\* a step that is a call of Calibrate
CalibrateStep == call'.op = "Calibrate" /\ tpc' = tpc

\* C10: only a Calibrate that completes changes the gain, to targetVoltage
\* over the mean of its 100 pre-gain samples; a Calibrate whose samples
\* average to zero or whose bus read fails ends in an error and leaves the
\* gain as it was.
GainOnlyByCalibrate ==
    [][ /\ gain' # gain => (CalibrateStep /\ call'.outcome = "ok")
        /\ CalibrateStep =>
              LET answers == call'.run.answers
                  failed == answers.failAt >= 0 \/ MeanConverted(answers) = R(0)
              IN  /\ failed => (call'.outcome # "ok" /\ gain' = gain)
                  /\ ~failed =>
                        /\ call'.outcome = "ok"
                        /\ gain' = RDiv(call'.exactVoltage, MeanConverted(answers)) ]_vars

\* C10's case: a Calibrate over all-zero samples failed and left the gain
\* that an earlier Calibrate had set
GainWitness ==
    /\ call.op = "Calibrate"
    /\ call.outcome = "ZeroDivisionError"
    /\ gain # defaultGain

(***************************************************************************)
(* Stopping the thread                                                     *)
(***************************************************************************)
\* run() has returned, or has ended with the exception of a bus read
Terminated == tpc \in {"done", "crashed"}

\* C11: once Stop() was called a started thread eventually terminates; from
\* any moment at which the stop flag is set the filtered voltage is updated
\* at most once more; after the thread has terminated the filtered voltage
\* never changes again; and a thread whose Stop() came before its start
\* takes no sample and returns from run().
StopIsCooperative ==
    /\ (exit /\ tpc # "new") ~> Terminated
    /\ \A n \in 0..MaxIters :
          []((exit /\ Len(samples) = n) => [](Len(samples) <= n + 1))
    /\ [][Terminated =>
             (filteredVoltage' = filteredVoltage /\ samples' = samples /\ tpc' = tpc)]_batVars
    /\ []((exit /\ tpc = "new") =>
             [](samples = <<>> /\ filteredVoltage = R(0) /\ tpc \in {"new", "check", "done"}))
    /\ (exit /\ tpc = "check" /\ samples = <<>>) ~> (tpc = "done" /\ samples = <<>>)

\* C11's case: Stop() was called during the second iteration, the thread
\* made that one further update and then returned from run()
StopWitness ==
    /\ call.op = "Stop"
    /\ call.taken = 1
    /\ Len(samples) = 2
    /\ exit
    /\ tpc = "done"

====
